---- MODULE Spec2Model ----
(***************************************************************************)
(* Model of the asynchronous Report Portal clients of                      *)
(* reportportal_client/aio/client.py (AsyncRPClient, ThreadedRPClient,     *)
(* BatchedRPClient over Client) and of the request layer of                *)
(* reportportal_client/core/rp_requests.py (AsyncHttpRequest.make,         *)
(* await_if_necessary, ItemFinishRequest.payload, RPLogBatch.payload).     *)
(*                                                                         *)
(* One client is modelled.  Its units of work are coroutines run by an     *)
(* asyncio event loop: a FIFO queue of ready tasks, tasks parked on the    *)
(* future they await, and tasks parked on a transport response.  The       *)
(* transport (the aiohttp session method) is the environment: a call that  *)
(* was issued is answered later with one of the outcomes of Outcomes.      *)
(***************************************************************************)
EXTENDS Integers, Sequences, FiniteSets, TLC

\* ------------------------------------------------------------------ bounds
MaxOps == 3            \* API calls of the main caller in a free program
MaxOtherLogs == 1      \* log() calls of a second thread (Threaded and Batched clients)
MaxFaults == 1         \* transport answers other than a full response
LogBatchSize == 2      \* the log_batch_size given to the client
DefaultEntryNum == 3   \* entry count of LogBatcher() built without arguments
                       \* (20 in the library, scaled down)
TriggerNum == 3        \* trigger_num given to BatchedRPClient
TriggerInterval == 1   \* trigger_interval given to BatchedRPClient, in ticks
DEFAULT_TASK_TIMEOUT == 1       \* ticks (60 s in the library, scaled down)
DEFAULT_SHUTDOWN_TIMEOUT == 2   \* ticks (120 s in the library, scaled down)
MaxTime == DEFAULT_SHUTDOWN_TIMEOUT   \* the Batched client's clock is observed up to here
TaskTimeout == 1       \* task_timeout given to ThreadedRPClient, in ticks
MaxPartLen == 3        \* characters of the endpoint passed to ReportPortalService
MaxArgLen == 1         \* characters of project and api_base
ShutdownTimeout == 1   \* shutdown_timeout given to ThreadedRPClient, in ticks
MaxLogReqs == 3        \* log requests of an RPLogBatch

VARIABLES
    kind,            \* "async" | "threaded" | "batched": the client class
    use_own_launch,  \* self.use_own_launch
    launch_uuid,     \* self.launch_uuid: a value or a task handle
    item_stack,      \* self._item_stack (_LifoQueue), bottom first
    batch,           \* records held by self._log_batcher
    tasks,           \* every unit of work created so far, by task id
    ready,           \* the loop's FIFO queue of task ids ready to step
    waiting,         \* task ids parked on a future, in registration order
    net,             \* history: session-method invocations, in issue order
    task_list,       \* self.__task_list of the Threaded / Batched client
    mutex,           \* ThreadedRPClient.__task_mutex: "free" | "main" | "other"
    thread_started,  \* ThreadedRPClient.__thread is set and running
    self_loop,       \* ThreadedRPClient.__self_loop: the client made its own loop
    threads,         \* history: how many threads the client has started
    now,             \* time.time(), in ticks
    last_run_time,   \* BatchedRPClient.__last_run_time
    shutdown_start,  \* finish_tasks: shutdown_start_time
    task_start,      \* finish_tasks: task_start_time
    ft_idx,          \* finish_tasks: position of the for loop in task_list
    pc,              \* main caller: where it is inside the current API call
    call,            \* main caller: the API call in progress
    outcome,         \* main caller: how its last API call ended
    pc2,             \* second caller thread: where it is inside its log() call
    t2,              \* second caller thread: the task it is registering
    faults,          \* transport faults the environment may still inject
    todo,            \* the API calls the main caller still has to make
    others,          \* log() calls the second caller thread may still make
    flushed,         \* history: what finish_launch's flush() returned
    g2,              \* second caller thread (Batched): the batch it took
    warnings,        \* history: the kinds of warning logged so far
    cloned,          \* the client returned by clone(), once there is one
    svc,             \* a ReportPortalService under construction / a uri_join call
    req              \* a call into the request layer: its input and its result

clientvars == <<kind, use_own_launch, launch_uuid, item_stack, batch, tasks, ready,
                waiting, net, task_list, mutex, thread_started, self_loop, threads, now, last_run_time,
                shutdown_start, task_start, ft_idx, pc, call, outcome, pc2, t2,
                faults, todo, others, flushed, g2, warnings, cloned>>

vars == <<kind, use_own_launch, launch_uuid, item_stack, batch, tasks, ready,
          waiting, net, task_list, mutex, thread_started, self_loop, threads, now, last_run_time,
          shutdown_start, task_start, ft_idx, pc, call, outcome, pc2, t2,
          faults, todo, others, flushed, g2, warnings, cloned, svc, req>>

\* ------------------------------------------------------------------ values
\* A value or handle is a record [k, n].
NONE == [k |-> "none", n |-> 0]
NOT_FOUND == [k |-> "nf", n |-> 0]
\* self.__launch_uuid before anything was assigned to it: reading the
\* launch_uuid property raises AttributeError
UNSET == [k |-> "unset", n |-> 0]
EMPTY_STR == [k |-> "str", n |-> 0]
Id(n) == [k |-> "id", n |-> n]
Msg(n) == [k |-> "msg", n |-> n]
TaskH(n) == [k |-> "task", n |-> n]
EXTERNAL_LAUNCH == Id(0)

Kinds == {"async", "threaded", "batched"}
IsSync == kind \in {"threaded", "batched"}

\* bool(value) as used by `if parent_item_id:`, `if obj:`, `if item_id and ...`
\* (a future, a coroutine, a function and an object without __bool__ or
\* __len__ are true)
Truthy(v) == v.k \in {"id", "task", "msg", "future", "coroutine", "corofn",
                      "file", "ctype"}

\* no clone yet / a client as its constructor and clone() leave it
NoClone == [made |-> FALSE, use_own_launch |-> FALSE, launch_uuid |-> NONE,
            item_stack |-> <<>>, batch |-> <<>>]

NoCall == [op |-> "none", t |-> 0, stage |-> 0, g |-> {}, arg |-> NONE]

TaskIds == 1..Len(tasks)
IsDone(t) == tasks[t].st \in {"done", "failed"}
OpTasks(op) == {t \in TaskIds : tasks[t].op = op}

\* a handle that is a task not yet finished / finished with an exception
Pending(h) == h.k = "task" /\ ~IsDone(h.n)
Failed(h) == h.k = "task" /\ tasks[h.n].st = "failed"
\* await await_if_necessary(h), once h is not pending and did not fail
Value(h) == IF h.k = "task" THEN tasks[h.n].res ELSE h

\* ------------------------------------------------------------- LogBatcher
\* LogBatcher._append: a record that would overflow the entry count hands back
\* the records held so far and starts a new batch with the incoming record.
\* The payload limit (65 MB by default) is out of reach of the bounded
\* records, so only the entry count decides here.
BatcherAppend(b, r) ==
    IF Len(b) + 1 > DefaultEntryNum
    THEN [ret |-> b, nb |-> <<r>>]
    ELSE [ret |-> <<>>, nb |-> Append(b, r)]

\* LogBatcher.flush: hand back and clear whatever is held
BatcherFlush(b) == [ret |-> b, nb |-> <<>>]

\* -------------------------------------------------------------- event loop
NewTask(op, dep, b) ==
    [op |-> op, dep |-> dep, lh |-> launch_uuid, b |-> b,
     st |-> "ready", on |-> 0, res |-> NONE, by |-> "main", ans |-> "none"]

\* loop.create_task(coro): the task exists and its first step is queued
LoopCreateTask(op, dep, b) ==
    /\ tasks' = Append(tasks, NewTask(op, dep, b))
    /\ ready' = Append(ready, Len(tasks) + 1)

\* loop.create_task(coro) called by the second caller thread
OtherLoopCreateTask(op, dep, b) ==
    /\ tasks' = Append(tasks, [NewTask(op, dep, b) EXCEPT !.by = "other"])
    /\ ready' = Append(ready, Len(tasks) + 1)

\* Faulty variant of Woken: the finished task itself is queued once more.
Woken_AndItself(t) == Append(SelectSeq(waiting, LAMBDA w : tasks[w].on = t), t)

\* the tasks parked on task t, in the order they registered
Woken(t) == SelectSeq(waiting, LAMBDA w : tasks[w].on = t)
StillWaiting(t) == SelectSeq(waiting, LAMBDA w : tasks[w].on # t)

\* Client.__get_item_url / __get_launch_url on a resolved identifier:
\* None for NOT_FOUND, else the joined URL of that identifier
GetUrl(what, v) ==
    IF v = NOT_FOUND THEN [u |-> "null", v |-> NONE] ELSE [u |-> what, v |-> v]

\* What the coroutine of task t does when the loop steps it: park on a future
\* ("wait"), end with an exception ("fail"), end with a result ("done"), or
\* invoke the session method and park on the response ("call").
StepWait(d) == [act |-> "wait", on |-> d.n]
StepFail == [act |-> "fail"]
StepDone(v) == [act |-> "done", res |-> v]
StepCall(url, b) == [act |-> "call", u |-> url.u, v |-> url.v, b |-> b]

\* Faulty variant of MakeWithUrl: the session method is invoked without
\* awaiting the URL coroutine, with whatever the identifier is at that moment.
MakeWithUrl_NoAwait(what, h) ==
    IF Failed(h) THEN StepFail
    ELSE StepCall(GetUrl(what, IF Pending(h) THEN h ELSE Value(h)), <<>>)

\* AsyncHttpRequest.make with a URL coroutine: `await await_if_necessary(url)`
\* awaits the identifier, then the session method is invoked with the result
MakeWithUrl(what, h) ==
    IF Pending(h) THEN StepWait(h)
    ELSE IF Failed(h) THEN StepFail
    ELSE StepCall(GetUrl(what, Value(h)), <<>>)

\* Faulty variant of LogBatchStep: the emptiness test is missing.
LogBatchStep_NoTest(b) == StepCall([u |-> "log", v |-> NONE], b)

\* Faulty variant of LogBatchStep: the emptiness test is inverted.
LogBatchStep_Inverted(b) ==
    IF b = <<>> THEN StepCall([u |-> "log", v |-> NONE], b) ELSE StepDone(NONE)

\* Client.log_batch(log_batch): a transport call only for a non-empty batch
LogBatchStep(b) ==
    IF b # <<>> THEN StepCall([u |-> "log", v |-> NONE], b) ELSE StepDone(NONE)

Plan(t) ==
    LET T == tasks[t] IN
    CASE T.op = "start_launch" -> StepCall([u |-> "launch", v |-> NONE], <<>>)
      [] T.op = "start_item" ->
            IF Truthy(T.dep) THEN MakeWithUrl("item", T.dep)
            ELSE StepCall([u |-> "root", v |-> NONE], <<>>)
      [] T.op = "finish_item" -> MakeWithUrl("item", T.dep)
      [] T.op = "finish_launch" -> MakeWithUrl("finish", T.dep)
      [] T.op = "log_batch" -> LogBatchStep(T.b)
      [] T.op = "log" ->
            \* append_async awaits the record's launch and item identifiers,
            \* then appends; log_batch gets what the batcher hands back
            IF Pending(T.lh) THEN StepWait(T.lh)
            ELSE IF Failed(T.lh) THEN StepFail
            ELSE IF Pending(T.dep) THEN StepWait(T.dep)
            ELSE IF Failed(T.dep) THEN StepFail
            ELSE LogBatchStep(BatcherAppend(batch, T.b[1]).ret)
      [] T.op = "empty_str" -> StepDone(EMPTY_STR)

\* the loop is running: the background thread (or whoever runs the loop the
\* Threaded client was given), a run_until_complete of the Batched client, or
\* the caller's own loop while it awaits (Async)
LoopRunning ==
    \/ kind = "threaded" /\ (thread_started \/ ~self_loop)
    \/ kind = "batched" /\ pc = "drive" /\ \E t \in call.g : tasks[t].st # "done"
    \/ kind = "batched" /\ pc2 = "drive" /\ \E t \in g2 : tasks[t].st # "done"
    \/ kind = "async" /\ pc = "await"

Finish(t, st, v) ==
    /\ tasks' = [tasks EXCEPT ![t].st = st, ![t].res = v, ![t].on = 0]
    /\ waiting' = StillWaiting(t)

\* The loop runs the first ready task up to its next suspension point.
RunReady ==
    /\ LoopRunning
    /\ ready # <<>>
    /\ LET t == Head(ready)
           p == Plan(t)
       IN /\ CASE p.act = "wait" ->
                    /\ tasks' = [tasks EXCEPT ![t].st = "wait", ![t].on = p.on]
                    /\ waiting' = Append(waiting, t)
                    /\ ready' = Tail(ready)
                    /\ net' = net
               [] p.act = "fail" ->
                    /\ Finish(t, "failed", NONE)
                    /\ ready' = Tail(ready) \o Woken(t)
                    /\ net' = net
               [] p.act = "done" ->
                    /\ Finish(t, "done", p.res)
                    /\ ready' = Tail(ready) \o Woken(t)
                    /\ net' = net
               [] p.act = "call" ->
                    /\ tasks' = [tasks EXCEPT ![t].st = "io"]
                    /\ waiting' = waiting
                    /\ ready' = Tail(ready)
                    /\ net' = Append(net, [op |-> tasks[t].op, t |-> t,
                                           u |-> p.u, v |-> p.v, b |-> p.b])
          /\ batch' = IF tasks[t].op = "log" /\ p.act \in {"call", "done"}
                      THEN BatcherAppend(batch, tasks[t].b[1]).nb
                      ELSE batch
          \* __get_item_url / __get_launch_url warn about a non-existent id
          /\ warnings' = IF p.act = "call" /\ p.u = "null"
                         THEN warnings \cup {"no_id"} ELSE warnings
    /\ UNCHANGED <<kind, use_own_launch, launch_uuid, item_stack, task_list,
                   mutex, thread_started, self_loop, threads, now, last_run_time, shutdown_start,
                   task_start, ft_idx, pc, call, outcome, pc2, t2, faults,
                   todo, others, flushed, g2,
                   cloned, svc, req>>

\* ---------------------------------------------------------------- transport
\* How the session method answers: a full response ("ok"), a response with no
\* id / message in it ("noid"), an exception make() catches ("err": KeyError,
\* IOError, ValueError, TypeError) or one it does not catch ("exc").
Outcomes == {"ok", "noid", "err", "exc"}

\* The call of task t in the history
CallOf(t) == CHOOSE i \in 1..Len(net) : net[i].t = t

\* A request whose URL is None never leaves the session: building the URL
\* raises TypeError, which make() catches.
AllowedOutcomes(t) ==
    IF net[CallOf(t)].u = "null" THEN {"err"}
    ELSE IF faults > 0 THEN Outcomes ELSE {"ok"}

\* The rest of the coroutine once make() has returned
AfterResponse(t, o) ==
    LET op == tasks[t].op IN
    IF o = "exc" THEN [st |-> "failed", res |-> NONE]
    ELSE IF op \in {"start_launch", "start_item"} THEN
        \* `if not response: return`, else `await response.id`
        [st |-> "done",
         res |-> IF o = "err" THEN NONE ELSE IF o = "noid" THEN NOT_FOUND ELSE Id(t)]
    ELSE IF op \in {"finish_item", "finish_launch"} THEN
        \* `if not response: return`, else `await response.message`
        [st |-> "done",
         res |-> IF o = "err" THEN NONE ELSE IF o = "noid" THEN NOT_FOUND ELSE Msg(t)]
    ELSE
        \* log_batch: `return await response.messages` with no None check:
        \* AttributeError when make() returned None
        IF o = "err" THEN [st |-> "failed", res |-> NONE]
        ELSE [st |-> "done", res |-> Msg(t)]

\* The response of an in-flight call arrives and its task runs to the end.
Respond ==
    /\ LoopRunning
    /\ \E t \in TaskIds :
        /\ tasks[t].st = "io"
        /\ \E o \in AllowedOutcomes(t) :
            LET r == AfterResponse(t, o) IN
            \* the task ends; ans keeps how the session method answered
            /\ tasks' = [tasks EXCEPT ![t].st = r.st, ![t].res = r.res,
                                      ![t].on = 0, ![t].ans = o]
            /\ waiting' = StillWaiting(t)
            /\ ready' = ready \o Woken(t)
            /\ faults' = IF o # "ok" /\ net[CallOf(t)].u # "null"
                         THEN faults - 1 ELSE faults
            \* make() warns that the request failed when it catches the
            \* exception; start_test_item warns about a response with no id
            /\ warnings' =
                  IF o = "err" THEN warnings \cup {"request_failed"}
                  ELSE IF o = "noid" /\ tasks[t].op = "start_item"
                  THEN warnings \cup {"invalid_response"}
                  ELSE warnings
    /\ UNCHANGED <<kind, use_own_launch, launch_uuid, item_stack, batch, net,
                   task_list, mutex, thread_started, self_loop, threads, now, last_run_time,
                   shutdown_start, task_start, ft_idx, pc, call, outcome, pc2,
                   t2, todo, others, flushed, g2,
                   cloned, svc, req>>

\* ------------------------------------------------------ the caller's side
\* how the last API call ended, and the last unit it had created (0: none)
NoOutcome == [op |-> "none", how |-> "none", t |-> 0, arg |-> NONE]

\* the API call of the main caller ends: it returns, or raises to the caller
Return(c) ==
    /\ pc' = "idle"
    /\ call' = NoCall
    /\ outcome' = [op |-> c.op, how |-> "returned", t |-> c.t, arg |-> c.arg]

Raise(c) ==
    /\ pc' = "idle"
    /\ call' = NoCall
    /\ outcome' = [op |-> c.op, how |-> "raised", t |-> c.t, arg |-> c.arg]

\* run_until_complete on a loop that another thread is running raises
\* RuntimeError (asyncio refuses to run a running loop) to the caller
RaiseLoopRunning(c) ==
    /\ pc' = "idle"
    /\ call' = NoCall
    /\ outcome' = [op |-> c.op, how |-> "loop_running", t |-> c.t, arg |-> c.arg]

\* _remove_current_item: LifoQueue.get() blocks on an empty queue
RemoveCurrentItem(c) ==
    IF item_stack = <<>>
    THEN /\ pc' = "blocked"
         /\ call' = c
         /\ outcome' = outcome
         /\ item_stack' = item_stack
    ELSE /\ item_stack' = SubSeq(item_stack, 1, Len(item_stack) - 1)
         /\ Return(c)

\* _SyncRPClient: what the API method does once create_task has returned
AfterCreate(c) ==
    CASE c.op = "start_launch" ->
            /\ launch_uuid' = TaskH(c.t)
            /\ item_stack' = item_stack
            /\ Return(c)
      [] c.op = "start_item" ->
            /\ item_stack' = Append(item_stack, TaskH(c.t))
            /\ launch_uuid' = launch_uuid
            /\ Return(c)
      [] c.op = "finish_item" ->
            /\ launch_uuid' = launch_uuid
            /\ RemoveCurrentItem(c)
      [] c.op = "log" ->
            /\ UNCHANGED <<launch_uuid, item_stack>>
            /\ Return(c)
      [] c.op = "finish_launch" ->
            /\ UNCHANGED <<launch_uuid, item_stack>>
            /\ IF c.stage = 1
               THEN pc' = "fl2" /\ call' = c /\ outcome' = outcome
               ELSE IF use_own_launch
               THEN pc' = "ft" /\ call' = c /\ outcome' = outcome
               \* result_coro is already a Task: create_task(result_coro)
               \* raises TypeError, finish_tasks is not reached
               ELSE Raise(c)

\* AsyncRPClient: what the API method does once the awaited call has ended
AfterAwait(c) ==
    LET T == tasks[c.t] IN
    IF T.st = "failed"
    THEN /\ UNCHANGED <<launch_uuid, item_stack>>
         /\ Raise(c)
    ELSE CASE c.op = "start_launch" ->
                /\ launch_uuid' = T.res
                /\ item_stack' = item_stack
                /\ Return(c)
           [] c.op = "start_item" ->
                /\ item_stack' = IF Truthy(T.res) /\ T.res # NOT_FOUND
                                 THEN Append(item_stack, T.res) ELSE item_stack
                /\ launch_uuid' = launch_uuid
                /\ Return(c)
           [] c.op = "finish_item" ->
                /\ launch_uuid' = launch_uuid
                /\ RemoveCurrentItem(c)
           [] c.op = "log" ->
                /\ UNCHANGED <<launch_uuid, item_stack>>
                /\ Return(c)
           [] c.op = "finish_launch" ->
                /\ UNCHANGED <<launch_uuid, item_stack>>
                /\ IF c.stage = 1 /\ use_own_launch
                   THEN pc' = "fl2" /\ call' = c /\ outcome' = outcome
                   ELSE Return(c)

\* Faulty variant of ReadyToRun: the count comparison is strict.
ReadyToRun_Strict(n) ==
    IF n <= 0 THEN FALSE
    ELSE n > TriggerNum \/ now - last_run_time >= TriggerInterval

\* Faulty variant of ReadyToRun: the interval trigger is missing.
ReadyToRun_CountOnly(n) ==
    IF n <= 0 THEN FALSE
    ELSE n >= TriggerNum

\* BatchedRPClient.__ready_to_run for a pending list of n units
ReadyToRun(n) ==
    IF n <= 0 THEN FALSE
    ELSE n >= TriggerNum \/ now - last_run_time >= TriggerInterval

\* Faulty variant of PruneIndex: nothing is dropped.
PruneIndex_NoPrune(l) == 1

\* Faulty variant of PruneIndex: everything before the last entry is dropped.
PruneIndex_KeepLast(l) == Len(l)

\* ThreadedRPClient.create_task, the section under the mutex: append, then
\* drop the leading entries that are done (the last entry is always kept)
PruneIndex(l) ==
    IF \E j \in 1..Len(l) : ~IsDone(l[j])
    THEN CHOOSE j \in 1..Len(l) : ~IsDone(l[j]) /\ \A i \in 1..(j - 1) : IsDone(l[i])
    ELSE Len(l)

Registered(l, t) ==
    LET l2 == Append(l, t) IN SubSeq(l2, PruneIndex(l2), Len(l2))

\* The main caller hands a coroutine to its client: awaits it (Async), or
\* create_task (Threaded: up to the mutex; Batched: the whole method unless
\* the trigger fires, then up to run_until_complete).
Schedule(op, dep, b, c) ==
    LET t == Len(tasks) + 1
        c1 == [c EXCEPT !.t = t]
        l2 == Append(task_list, t)
    IN
    /\ LoopCreateTask(op, dep, b)
    /\ CASE kind = "async" ->
              /\ pc' = "await" /\ call' = c1
              /\ UNCHANGED <<launch_uuid, item_stack, outcome, task_list, last_run_time>>
         [] kind = "threaded" ->
              /\ pc' = "create" /\ call' = c1
              /\ UNCHANGED <<launch_uuid, item_stack, outcome, task_list, last_run_time>>
         [] kind = "batched" ->
              IF ReadyToRun(Len(l2))
              THEN /\ task_list' = <<>>
                   /\ last_run_time' = now
                   /\ UNCHANGED <<launch_uuid, item_stack>>
                   /\ IF pc2 = "drive"
                      THEN RaiseLoopRunning(c1)
                      ELSE /\ pc' = "drive"
                           /\ call' = [c1 EXCEPT !.g = {l2[i] : i \in 1..Len(l2)}]
                           /\ outcome' = outcome
              ELSE /\ task_list' = l2
                   /\ last_run_time' = last_run_time
                   /\ AfterCreate(c1)

\* an API call as it starts; arg is the item argument the caller passes
ApiCall(op) == [op |-> op, t |-> 0, stage |-> 1, g |-> {}, arg |-> NONE]

\* finish_launch has been called: the main caller makes no further call
FinishLaunchCalled == OpTasks("log_batch") # {}

\* The programs of the main caller: any MaxOps calls (the transport may fail
\* during these), the end-to-end trace (start launch, start item, three logs,
\* finish item, finish launch), enough logs to fill the batcher followed by
\* finish launch, and a short launch during which a second thread logs.
FreeProgram == [i \in 1..MaxOps |-> "any"]
EndToEnd == <<"start_launch", "start_item", "log", "log", "log",
              "finish_item", "finish_launch">>
FillBatcher == [i \in 1..(DefaultEntryNum + 2) |->
                   IF i = DefaultEntryNum + 2 THEN "finish_launch" ELSE "log"]
TwoThreads == <<"start_launch", "log", "finish_launch">>
Programs == {FreeProgram, EndToEnd, FillBatcher, TwoThreads}

\* the main caller is between calls and its program has op next
MayCall(op) ==
    /\ pc = "idle"
    /\ ~FinishLaunchCalled
    /\ todo # <<>>
    /\ Head(todo) \in {op, "any"}
    /\ todo' = Tail(todo)

ClientInit ==
    /\ kind \in Kinds
    /\ use_own_launch \in BOOLEAN
    /\ launch_uuid = IF use_own_launch THEN UNSET ELSE EXTERNAL_LAUNCH
    /\ item_stack = <<>>
    /\ batch = <<>>
    /\ tasks = <<>>
    /\ ready = <<>>
    /\ waiting = <<>>
    /\ net = <<>>
    /\ task_list = <<>>
    /\ mutex = "free"
    /\ thread_started = FALSE
    /\ self_loop \in (IF kind = "threaded" THEN BOOLEAN ELSE {TRUE})
    /\ threads = 0
    /\ now = 0
    /\ last_run_time = 0
    /\ shutdown_start = 0
    /\ task_start = 0
    /\ ft_idx = 0
    /\ pc = "idle"
    /\ call = NoCall
    /\ outcome = NoOutcome
    /\ pc2 = "idle"
    /\ t2 = 0
    /\ todo \in Programs
    /\ faults = IF todo = FreeProgram THEN MaxFaults ELSE 0
    /\ others = IF todo = TwoThreads /\ IsSync THEN MaxOtherLogs ELSE 0
    /\ flushed = <<>>
    /\ g2 = {}
    /\ warnings = {}
    /\ cloned = NoClone

\* no ReportPortalService is involved in the runs of the aio clients
NoService ==
    [pc |-> "none", endpoint |-> <<>>, project |-> <<>>,
     api_base_arg |-> [given |-> FALSE, v |-> <<>>],
     api_base |-> [set |-> FALSE, v |-> <<>>],
     base_url |-> <<>>, url |-> <<>>]

\* ... and no call into the request layer
NoRequest == [fn |-> "none", pc |-> "none"]

Init == ClientInit /\ svc = NoService /\ req = NoRequest

\* ------------------------------------------------------------- API calls
Range(q) == {q[i] : i \in 1..Len(q)}

\* Faulty variant of CurrentItem: the oldest open item instead of the newest.
CurrentItem_First == IF item_stack = <<>> THEN NONE ELSE item_stack[1]

\* current_item(): _LifoQueue.last(), queue[-1] or None when the queue is empty
CurrentItem == IF item_stack = <<>> THEN NONE ELSE item_stack[Len(item_stack)]

\* what start_test_item has handed to the caller so far
StartedHandles ==
    IF IsSync THEN {TaskH(t) : t \in OpTasks("start_item")}
    ELSE {tasks[t].res : t \in {u \in OpTasks("start_item") : tasks[u].st = "done"}}

ScheduleFrame ==
    UNCHANGED <<kind, use_own_launch, waiting, net, mutex, thread_started, self_loop, threads, now,
                shutdown_start, task_start, ft_idx, pc2, t2, faults, others,
                g2, warnings, cloned, svc, req>>

\* an API call that returns at once without scheduling anything
Skip(op, arg) ==
    /\ outcome' = [op |-> op, how |-> "returned", t |-> 0, arg |-> arg]
    \* log() warns about the attempt to log to a non-existent item
    /\ warnings' = IF op = "log" THEN warnings \cup {"log_no_item"} ELSE warnings
    /\ UNCHANGED <<kind, use_own_launch, launch_uuid, item_stack, batch, tasks,
                   ready, waiting, net, task_list, mutex, thread_started, self_loop, threads, now,
                   last_run_time, shutdown_start, task_start, ft_idx, pc, call,
                   pc2, t2, faults, others, flushed, g2,
                   cloned, svc, req>>

\* Faulty variant of LaunchUnassigned: the property yields None instead.
LaunchUnassigned_Never == FALSE

\* the launch_uuid property getter raises AttributeError: `return
\* self.__launch_uuid` while __init__ (no launch_uuid argument) and
\* start_launch have not assigned the attribute
LaunchUnassigned == launch_uuid = UNSET

\* an API call that raises before it has scheduled anything: it reads
\* self.launch_uuid while the attribute behind the property does not exist
RaiseAttributeError(op) ==
    /\ outcome' = [op |-> op, how |-> "raised", t |-> 0, arg |-> NONE]
    /\ UNCHANGED <<kind, use_own_launch, launch_uuid, item_stack, batch, tasks,
                   ready, waiting, net, task_list, mutex, thread_started, self_loop, threads, now,
                   last_run_time, shutdown_start, task_start, ft_idx, pc, call,
                   pc2, t2, faults, others, flushed, g2, warnings, cloned, svc, req>>

\* AsyncRPClient(endpoint=None, project=None, client=cloned_client,
\* launch_uuid=l): a new _LifoQueue and a new LogBatcher; the launch is taken
\* over only when l is truthy, otherwise the attribute stays unassigned
NewAsyncRPClient(l) ==
    [made |-> TRUE,
     use_own_launch |-> ~Truthy(l),
     launch_uuid |-> IF Truthy(l) THEN l ELSE UNSET,
     item_stack |-> <<>>,
     batch |-> <<>>]

\* clone(). ThreadedRPClient / BatchedRPClient: `self.__client` inside these
\* classes is the attribute _ThreadedRPClient__client / _BatchedRPClient__client,
\* which nothing assigns (_SyncRPClient.__init__ assigns _SyncRPClient__client):
\* AttributeError. AsyncRPClient: a new client for the same launch, holding the
\* current item when there is one.
Clone ==
    /\ MayCall("clone")
    /\ ~cloned.made
    /\ IF IsSync \/ LaunchUnassigned
       THEN RaiseAttributeError("clone")
       ELSE /\ cloned' = [NewAsyncRPClient(launch_uuid) EXCEPT
                            !.item_stack = IF Truthy(CurrentItem)
                                           THEN <<CurrentItem>> ELSE <<>>]
            /\ outcome' = [op |-> "clone", how |-> "returned", t |-> 0, arg |-> NONE]
            /\ UNCHANGED <<kind, use_own_launch, launch_uuid, item_stack, batch,
                           tasks, ready, waiting, net, task_list, mutex,
                           thread_started, self_loop, threads, now, last_run_time, shutdown_start,
                           task_start, ft_idx, pc, call, pc2, t2, faults,
                           others, flushed, g2, warnings, svc, req>>

StartLaunch ==
    /\ MayCall("start_launch")
    /\ OpTasks("start_launch") = {}
    /\ IF ~use_own_launch
       THEN Skip("start_launch", NONE)
       ELSE /\ Schedule("start_launch", NONE, <<>>, ApiCall("start_launch"))
            /\ ScheduleFrame
            /\ UNCHANGED <<batch, flushed>>

StartTestItem ==
    /\ MayCall("start_item")
    /\ IF LaunchUnassigned
       THEN RaiseAttributeError("start_item")
       ELSE /\ \E p \in {NONE} \cup Range(item_stack) :
                  Schedule("start_item", p, <<>>, [ApiCall("start_item") EXCEPT !.arg = p])
            /\ ScheduleFrame
            /\ UNCHANGED <<batch, flushed>>

FinishTestItem ==
    /\ MayCall("finish_item")
    /\ \E h \in StartedHandles :
          Schedule("finish_item", h, <<>>, [ApiCall("finish_item") EXCEPT !.arg = h])
    /\ ScheduleFrame
    /\ UNCHANGED <<batch, flushed>>

NextRecord == Cardinality(OpTasks("log")) + 1

\* Faulty variant of LogShortCircuits: the test is missing.
LogShortCircuits_Never(p) == FALSE

\* log(): `if parent_item is NOT_FOUND:` warn and return
LogShortCircuits(p) == p = NOT_FOUND

\* log(): the caller logs to its current item, or passes NOT_FOUND
Log ==
    /\ MayCall("log")
    /\ \E p \in {CurrentItem, NOT_FOUND} :
          IF LogShortCircuits(p)
          THEN Skip("log", p)
          ELSE IF LaunchUnassigned
          THEN RaiseAttributeError("log")
          ELSE /\ Schedule("log", p, <<NextRecord>>, [ApiCall("log") EXCEPT !.arg = p])
               /\ ScheduleFrame
               /\ UNCHANGED <<batch, flushed>>

\* finish_launch, up to the first create_task / await: flush the batcher and
\* hand the flushed records to Client.log_batch
FinishLaunch ==
    /\ MayCall("finish_launch")
    /\ Schedule("log_batch", NONE, BatcherFlush(batch).ret, ApiCall("finish_launch"))
    /\ batch' = BatcherFlush(batch).nb
    /\ flushed' = BatcherFlush(batch).ret
    /\ ScheduleFrame

\* finish_launch, second unit: Client.finish_launch, or __empty_str when the
\* launch is not the client's own (Sync clients)
FinishLaunch2 ==
    /\ pc = "fl2"
    /\ IF use_own_launch /\ LaunchUnassigned
       THEN \* self.launch_uuid is read for Client.finish_launch
            /\ Raise(call)
            /\ UNCHANGED <<launch_uuid, item_stack, tasks, ready, task_list,
                           last_run_time>>
       ELSE IF use_own_launch
       THEN Schedule("finish_launch", launch_uuid, <<>>, [call EXCEPT !.stage = 2])
       ELSE Schedule("empty_str", NONE, <<>>, [call EXCEPT !.stage = 2])
    /\ todo' = todo
    /\ ScheduleFrame
    /\ UNCHANGED <<batch, flushed>>

\* ------------------------------------------------------------ AsyncRPClient
AsyncResume ==
    /\ kind = "async"
    /\ pc = "await"
    /\ IsDone(call.t)
    /\ AfterAwait(call)
    /\ UNCHANGED <<kind, use_own_launch, batch, tasks, ready, waiting, net,
                   task_list, mutex, thread_started, self_loop, threads, now, last_run_time,
                   shutdown_start, task_start, ft_idx, pc2, t2, faults, todo,
                   others, flushed, g2, warnings, cloned, svc, req>>

\* --------------------------------------------------------- ThreadedRPClient
\* Faulty variant of CanRegister: create_task also waits for the identifier
\* the new unit depends on.
CanRegister_AwaitsParent(t) == mutex = "free" /\ ~Pending(tasks[t].dep)

\* Faulty variant of StartsThread: the test of self.__thread is left out.
StartsThread_EveryCall == self_loop

\* create_task: `if not self.__thread and self.__self_loop`
StartsThread == ~thread_started /\ self_loop

\* `with self.__task_mutex:` in create_task: entered when the mutex is free
CanRegister(t) == mutex = "free"

\* create_task of the main caller, the section under the mutex: the append,
\* the start of the thread and the pruning loop with its done() tests
ThreadedRegister ==
    /\ kind = "threaded"
    /\ pc = "create"
    /\ CanRegister(call.t)
    /\ mutex' = "main"
    /\ task_list' = Registered(task_list, call.t)
    /\ thread_started' = (thread_started \/ StartsThread)
    /\ threads' = threads + (IF StartsThread THEN 1 ELSE 0)
    /\ pc' = "release"
    /\ UNCHANGED <<kind, use_own_launch, launch_uuid, item_stack, batch, tasks,
                   ready, waiting, net, self_loop, now, last_run_time,
                   shutdown_start, task_start, ft_idx, call, outcome, pc2, t2,
                   faults, todo, others, flushed, g2, warnings, cloned, svc, req>>

\* create_task of the main caller leaves the `with` block and returns the
\* task; the API method goes on
ThreadedRelease ==
    /\ kind = "threaded"
    /\ pc = "release"
    /\ mutex' = "free"
    /\ AfterCreate(call)
    /\ UNCHANGED <<kind, use_own_launch, batch, tasks, ready, waiting, net,
                   task_list, thread_started, self_loop, threads, now,
                   last_run_time, shutdown_start, task_start, ft_idx, pc2, t2,
                   faults, todo, others, flushed, g2, warnings, cloned, svc, req>>

\* the main caller calls finish_tasks() of its ThreadedRPClient itself
FinishTasks ==
    /\ kind = "threaded"
    /\ MayCall("finish_tasks")
    /\ pc' = "ft"
    /\ call' = ApiCall("finish_tasks")
    /\ UNCHANGED <<kind, use_own_launch, launch_uuid, item_stack, batch, tasks,
                   ready, waiting, net, task_list, mutex, thread_started,
                   self_loop, threads, now, last_run_time, shutdown_start,
                   task_start, ft_idx, outcome, pc2, t2, faults, others, flushed,
                   g2, warnings, cloned, svc, req>>

\* Faulty variant of ListAfterFinish: the tasks that are not done stay.
ListAfterFinish_KeepsNotDone(l) == SelectSeq(l, LAMBDA t : ~IsDone(t))

\* finish_tasks, after the for loop: `self.__task_list = []`
ListAfterFinish(l) == <<>>

\* finish_tasks takes the mutex and enters the for loop
ThreadedFinishTasks ==
    /\ kind = "threaded"
    /\ pc = "ft"
    /\ mutex = "free"
    /\ shutdown_start' = now
    /\ IF task_list = <<>>
       THEN /\ Return(call)
            /\ task_list' = ListAfterFinish(task_list)
            /\ UNCHANGED <<mutex, task_start, ft_idx>>
       ELSE /\ mutex' = "main"
            /\ ft_idx' = 1
            /\ task_start' = now
            /\ pc' = "ft_wait"
            /\ UNCHANGED <<call, outcome, task_list>>
    /\ UNCHANGED <<kind, use_own_launch, launch_uuid, item_stack, batch, tasks,
                   ready, waiting, net, thread_started, self_loop, threads, now, last_run_time,
                   pc2, t2, faults, todo, others, flushed, g2, warnings, cloned, svc, req>>

ShutdownExpired == now - shutdown_start >= DEFAULT_SHUTDOWN_TIMEOUT

\* the time part of the while condition: neither timeout has been reached
WithinTimeouts == now - task_start < DEFAULT_TASK_TIMEOUT /\ ~ShutdownExpired

\* Faulty variant of WaitOver: the loop only ends when the task is done.
WaitOver_NoTimeout == IsDone(task_list[ft_idx])

\* the while condition on the visited task is false
WaitOver == IsDone(task_list[ft_idx]) \/ ~WithinTimeouts

\* the while loop on the visited task ends: go to the next task, or leave the
\* for loop, clear the list and release the mutex
ThreadedWaitEnd ==
    /\ kind = "threaded"
    /\ pc = "ft_wait"
    /\ WaitOver
    /\ IF ShutdownExpired \/ ft_idx = Len(task_list)
       THEN /\ task_list' = ListAfterFinish(task_list)
            /\ mutex' = "free"
            /\ Return(call)
            /\ UNCHANGED <<ft_idx, task_start>>
       ELSE /\ ft_idx' = ft_idx + 1
            /\ task_start' = now
            /\ UNCHANGED <<task_list, mutex, pc, call, outcome>>
    /\ UNCHANGED <<kind, use_own_launch, launch_uuid, item_stack, batch, tasks,
                   ready, waiting, net, thread_started, self_loop, threads, now, last_run_time,
                   shutdown_start, pc2, t2, faults, todo, others, flushed, g2, warnings, cloned, svc, req>>

\* log() on a second thread: loop.create_task, then the mutex
OtherLog ==
    /\ kind = "threaded"
    /\ pc2 = "idle"
    /\ others > 0
    /\ ~LaunchUnassigned
    /\ OtherLoopCreateTask("log", NONE, <<NextRecord>>)
    /\ pc2' = "create"
    /\ t2' = Len(tasks) + 1
    /\ others' = others - 1
    /\ UNCHANGED <<kind, use_own_launch, launch_uuid, item_stack, batch,
                   waiting, net, task_list, mutex, thread_started, self_loop, threads, now,
                   last_run_time, shutdown_start, task_start, ft_idx, pc, call,
                   outcome, faults, todo, flushed, g2, warnings, cloned, svc, req>>

OtherRegister ==
    /\ kind = "threaded"
    /\ pc2 = "create"
    /\ CanRegister(t2)
    /\ mutex' = "other"
    /\ task_list' = Registered(task_list, t2)
    /\ thread_started' = (thread_started \/ StartsThread)
    /\ threads' = threads + (IF StartsThread THEN 1 ELSE 0)
    /\ pc2' = "release"
    /\ UNCHANGED <<kind, use_own_launch, launch_uuid, item_stack, batch, tasks,
                   ready, waiting, net, self_loop, now, last_run_time,
                   shutdown_start, task_start, ft_idx, pc, call, outcome, t2,
                   faults, todo, others, flushed, g2, warnings, cloned, svc, req>>

\* the second thread's create_task leaves the `with` block and log() returns
OtherRelease ==
    /\ kind = "threaded"
    /\ pc2 = "release"
    /\ mutex' = "free"
    /\ pc2' = "idle"
    /\ t2' = 0
    /\ UNCHANGED <<kind, use_own_launch, launch_uuid, item_stack, batch, tasks,
                   ready, waiting, net, task_list, thread_started, self_loop,
                   threads, now, last_run_time, shutdown_start, task_start,
                   ft_idx, pc, call, outcome, faults, todo, others, flushed, g2,
                   warnings, cloned, svc, req>>

\* ---------------------------------------------------------- BatchedRPClient
\* run_until_complete(gather(*tasks)) returns: every unit of the batch is done
BatchedReturn ==
    /\ kind = "batched"
    /\ pc = "drive"
    /\ \A t \in call.g : tasks[t].st = "done"
    /\ IF call.stage = 3
       THEN Return(call) /\ UNCHANGED <<launch_uuid, item_stack>>
       ELSE AfterCreate([call EXCEPT !.g = {}])
    /\ UNCHANGED <<kind, use_own_launch, batch, tasks, ready, waiting, net,
                   task_list, mutex, thread_started, self_loop, threads, now, last_run_time,
                   shutdown_start, task_start, ft_idx, pc2, t2, faults, todo,
                   others, flushed, g2, warnings, cloned, svc, req>>

\* gather has no return_exceptions: the first failure of a unit of the batch
\* is raised by run_until_complete, out of create_task / finish_tasks
BatchedRaise ==
    /\ kind = "batched"
    /\ pc = "drive"
    /\ \E t \in call.g : tasks[t].st = "failed"
    /\ Raise(call)
    /\ UNCHANGED <<kind, use_own_launch, launch_uuid, item_stack, batch, tasks,
                   ready, waiting, net, task_list, mutex, thread_started, self_loop, threads, now,
                   last_run_time, shutdown_start, task_start, ft_idx, pc2, t2,
                   faults, todo, others, flushed, g2, warnings, cloned, svc, req>>

BatchedFinishTasks ==
    /\ kind = "batched"
    /\ pc = "ft"
    /\ IF Len(task_list) > 0
       THEN /\ task_list' = <<>>
            /\ IF pc2 = "drive"
               THEN RaiseLoopRunning(call)
               ELSE /\ pc' = "drive"
                    /\ call' = [call EXCEPT !.stage = 3, !.g = Range(task_list)]
                    /\ outcome' = outcome
       ELSE /\ Return(call)
            /\ task_list' = task_list
    /\ UNCHANGED <<kind, use_own_launch, launch_uuid, item_stack, batch, tasks,
                   ready, waiting, net, mutex, thread_started, self_loop, threads, now,
                   last_run_time, shutdown_start, task_start, ft_idx, pc2, t2,
                   faults, todo, others, flushed, g2, warnings, cloned, svc, req>>

\* log() on a second thread: create_task appends under the mutex and tests
\* the trigger; when it fires the thread leaves the mutex with the batch
OtherCreateTask ==
    /\ kind = "batched"
    /\ pc2 = "idle"
    /\ others > 0
    /\ ~LaunchUnassigned
    /\ OtherLoopCreateTask("log", NONE, <<NextRecord>>)
    /\ others' = others - 1
    /\ LET l2 == Append(task_list, Len(tasks) + 1) IN
       IF ReadyToRun(Len(l2))
       THEN /\ task_list' = <<>>
            /\ last_run_time' = now
            /\ pc2' = "swapped"
            /\ g2' = Range(l2)
       ELSE /\ task_list' = l2
            /\ UNCHANGED <<last_run_time, pc2, g2>>
    /\ UNCHANGED <<kind, use_own_launch, launch_uuid, item_stack, batch,
                   waiting, net, mutex, thread_started, self_loop, threads, now, shutdown_start,
                   task_start, ft_idx, pc, call, outcome, t2, faults, todo,
                   flushed, warnings, cloned, svc, req>>

\* the second thread calls run_until_complete(gather(*tasks)): it drives the
\* loop, or finds the loop running in the main caller's run_until_complete
OtherRunUntilComplete ==
    /\ kind = "batched"
    /\ pc2 = "swapped"
    /\ IF pc = "drive"
       THEN pc2' = "loop_running" /\ g2' = {}
       ELSE pc2' = "drive" /\ g2' = g2
    /\ UNCHANGED <<kind, use_own_launch, launch_uuid, item_stack, batch, tasks,
                   ready, waiting, net, task_list, mutex, thread_started, self_loop, threads, now,
                   last_run_time, shutdown_start, task_start, ft_idx, pc, call,
                   outcome, t2, faults, todo, others, flushed, warnings, cloned, svc, req>>

\* run_until_complete of the second thread ends: the batch is done, or a unit
\* of it failed
OtherDriveEnd ==
    /\ kind = "batched"
    /\ pc2 = "drive"
    /\ \/ \A t \in g2 : tasks[t].st = "done"
       \/ \E t \in g2 : tasks[t].st = "failed"
    /\ pc2' = "idle"
    /\ g2' = {}
    /\ UNCHANGED <<kind, use_own_launch, launch_uuid, item_stack, batch, tasks,
                   ready, waiting, net, task_list, mutex, thread_started, self_loop, threads, now,
                   last_run_time, shutdown_start, task_start, ft_idx, pc, call,
                   outcome, t2, faults, todo, others, flushed, warnings, cloned, svc, req>>

\* --------------------------------------------------------------------- time
\* time.time() is read by BatchedRPClient.__ready_to_run and by
\* ThreadedRPClient.finish_tasks only; the clock advances where it is read.
\* finish_tasks polls the clock every sys.getswitchinterval(), far below one
\* tick: it sees a timeout before the clock moves on.
Tick ==
    /\ \/ kind = "threaded" /\ pc = "ft_wait" /\ WithinTimeouts
       \/ kind = "batched" /\ pc \in {"idle", "drive"} /\ outcome.op # "finish_launch"
            /\ now - last_run_time < TriggerInterval
            /\ now < MaxTime
    /\ now' = now + 1
    /\ UNCHANGED <<kind, use_own_launch, launch_uuid, item_stack, batch, tasks,
                   ready, waiting, net, task_list, mutex, thread_started, self_loop, threads,
                   last_run_time, shutdown_start, task_start, ft_idx, pc, call,
                   outcome, pc2, t2, faults, todo, others, flushed, g2, warnings, cloned, svc, req>>

Next ==
    \/ StartLaunch
    \/ StartTestItem
    \/ FinishTestItem
    \/ Log
    \/ Clone
    \/ FinishLaunch
    \/ FinishLaunch2
    \/ AsyncResume
    \/ ThreadedRegister
    \/ ThreadedRelease
    \/ FinishTasks
    \/ ThreadedFinishTasks
    \/ ThreadedWaitEnd
    \/ OtherLog
    \/ OtherRegister
    \/ OtherRelease
    \/ BatchedReturn
    \/ BatchedRaise
    \/ BatchedFinishTasks
    \/ OtherCreateTask
    \/ OtherRunUntilComplete
    \/ OtherDriveEnd
    \/ RunReady
    \/ Respond
    \/ Tick

Spec == Init /\ [][Next]_vars

\* The thread inside finish_tasks keeps running and the clock keeps advancing;
\* nothing is assumed about the loop or the transport.
LiveSpec ==
    /\ Spec
    /\ WF_vars(Tick)
    /\ WF_vars(ThreadedFinishTasks)
    /\ WF_vars(ThreadedWaitEnd)
    /\ WF_vars(OtherRelease)

TypeOK ==
    /\ kind \in Kinds
    /\ pc \in {"idle", "create", "release", "drive", "await", "fl2", "ft", "ft_wait",
             "blocked"}
    /\ pc2 \in {"idle", "create", "release", "swapped", "drive", "loop_running"}
    /\ (pc = "drive" /\ pc2 = "drive") = FALSE
    /\ mutex \in {"free", "main", "other"}
    /\ now \in Nat
    /\ kind = "batched" => now <= MaxTime
    /\ cloned.made \in BOOLEAN
    /\ svc.pc \in {"none", "start", "built", "raised", "joined"}
    /\ launch_uuid = UNSET => use_own_launch
    /\ \A t \in TaskIds : tasks[t].st \in {"ready", "wait", "io", "done", "failed"}

\* ------------------------------------------------------ ReportPortalService
\* Strings are sequences of characters; the inputs are drawn from the two
\* characters uri_join strips and one ordinary character.
Chars == {"/", "\\", "a"}
Strs(n) == UNION {[1..k -> Chars] : k \in 0..n}

\* the literal "api/v1"
API_V1 == <<"a", "p", "i", "/", "v", "1">>

\* str.strip(c) for a single character c
RECURSIVE LStrip(_, _)
LStrip(str, c) ==
    IF str # <<>> /\ Head(str) = c THEN LStrip(Tail(str), c) ELSE str

RECURSIVE RStrip(_, _)
RStrip(str, c) ==
    IF str # <<>> /\ str[Len(str)] = c
    THEN RStrip(SubSeq(str, 1, Len(str) - 1), c) ELSE str

Strip(str, c) == RStrip(LStrip(str, c), c)

\* '/'.join(parts)
RECURSIVE JoinSlash(_)
JoinSlash(parts) ==
    IF parts = <<>> THEN <<>>
    ELSE IF Len(parts) = 1 THEN parts[1]
    ELSE parts[1] \o <<"/">> \o JoinSlash(Tail(parts))

\* str(i).strip('/').strip('\\')
StripPart(part) == Strip(Strip(part, "/"), "\\")

\* ReportPortalService.uri_join(*uri_parts)
uri_join(uri_parts) ==
    JoinSlash([i \in 1..Len(uri_parts) |-> StripPart(uri_parts[i])])

\* the arguments of a constructor call: endpoint, project and api_base (given
\* or left to its default None)
SvcInputs ==
    {[NoService EXCEPT !.pc = "start", !.endpoint = e, !.project = p,
                       !.api_base_arg = a] :
        e \in Strs(MaxPartLen), p \in Strs(MaxArgLen),
        a \in {[given |-> FALSE, v |-> <<>>]}
                \cup {[given |-> TRUE, v |-> v] : v \in Strs(MaxArgLen)}}

\* __init__: `if api_base is None: self.api_base = "api/v1"`, and no else
ApiBaseAfterInit(a) ==
    IF ~a.given THEN [set |-> TRUE, v |-> API_V1] ELSE [set |-> FALSE, v |-> <<>>]

\* ReportPortalService.__init__: reading self.api_base for base_url raises
\* AttributeError when the attribute was not assigned
ServiceInit ==
    /\ svc.pc = "start"
    /\ LET ab == ApiBaseAfterInit(svc.api_base_arg) IN
       svc' = IF ab.set
              THEN [svc EXCEPT !.pc = "built", !.api_base = ab,
                               !.base_url = uri_join(<<svc.endpoint, ab.v, svc.project>>)]
              ELSE [svc EXCEPT !.pc = "raised", !.api_base = ab]
    /\ UNCHANGED <<clientvars, req>>

\* ReportPortalService.uri_join(endpoint, project), called on the class
UriJoin ==
    /\ svc.pc = "start"
    /\ svc' = [svc EXCEPT !.pc = "joined",
                          !.url = uri_join(<<svc.endpoint, svc.project>>)]
    /\ UNCHANGED <<clientvars, req>>

SvcInit ==
    /\ ClientInit
    /\ kind = "async"
    /\ ~use_own_launch
    /\ todo = EndToEnd
    /\ svc \in SvcInputs
    /\ req = NoRequest

SvcNext == ServiceInit \/ UriJoin

SvcSpec == SvcInit /\ [][SvcNext]_vars

\* ------------------------------------------------------------ request layer
\* await_if_necessary, ItemFinishRequest.payload and RPLogBatch.payload are
\* functions of their argument or of the request object alone.  A call is
\* req = [fn, pc, in, ...]: drawn with its input, then evaluated.

\* An awaitable that resolves to res: a future or task, a coroutine object,
\* or a coroutine function, whose call makes a coroutine resolving to res.
Deferred(k, res) == [k |-> k, n |-> 0, res |-> res]
DeferredKinds == {"future", "coroutine"}
INT_ZERO == [k |-> "int", n |-> 0]
PlainValues == {NONE, EMPTY_STR, NOT_FOUND, INT_ZERO, Id(1)}
Deferreds(results) ==
    {Deferred(k, r) : k \in DeferredKinds \cup {"corofn"}, r \in results}
\* the arguments of await_if_necessary: values, awaitables resolving to a
\* value, and awaitables resolving to such an awaitable
AwaitInputs ==
    {[fn |-> "await", pc |-> "start", in |-> o, out |-> NONE, again |-> NONE] :
        o \in PlainValues \cup Deferreds(PlainValues \cup Deferreds(PlainValues))}

\* asyncio.isfuture(obj) or asyncio.iscoroutine(obj)
IsAwaitable(obj) == obj.k \in DeferredKinds
\* asyncio.iscoroutinefunction(obj)
IsCoroutineFunction_Never(obj) == FALSE
IsCoroutineFunction(obj) == obj.k = "corofn"

\* the value `await await_if_necessary(obj)` evaluates to
await_if_necessary(obj) ==
    IF Truthy(obj)
    THEN IF IsAwaitable(obj) THEN obj.res
         ELSE IF IsCoroutineFunction(obj) THEN Deferred("coroutine", obj.res).res
         ELSE obj
    ELSE obj

AwaitIfNecessary ==
    /\ req.fn = "await" /\ req.pc = "start"
    /\ req' = [req EXCEPT !.pc = "returned", !.out = await_if_necessary(req.in)]
    /\ UNCHANGED <<clientvars, svc>>

\* the caller hands the result to await_if_necessary once more
AwaitIfNecessaryAgain ==
    /\ req.fn = "await" /\ req.pc = "returned"
    /\ req' = [req EXCEPT !.pc = "again", !.again = await_if_necessary(req.out)]
    /\ UNCHANGED <<clientvars, svc>>

\* str.lower() over the letters of the statuses
CaseTable == {<<"S", "s">>, <<"K", "k">>, <<"I", "i">>, <<"P", "p">>,
              <<"E", "e">>, <<"D", "d">>, <<"A", "a">>}
LowerChar(c) ==
    IF \E p \in CaseTable : p[1] = c
    THEN (CHOOSE p \in CaseTable : p[1] = c)[2]
    ELSE c
Lower(str) == [i \in 1..Len(str) |-> LowerChar(str[i])]

\* the literal 'skipped'
SKIPPED == <<"s", "k", "i", "p", "p", "e", "d">>
\* the literal {'issue_type': 'NOT_ISSUE'}
NOT_ISSUE == [issue_type |-> "NOT_ISSUE"]

\* an Issue object and its payload property
Issue(n) == [k |-> "issue", n |-> n]
IssuePayload(issue) == [k |-> "issue_payload", n |-> issue.n]

\* attributes: None, a dict (possibly empty) or a list; dict_to_payload turns
\* a dict into the list of its key / value entries
Attributes == {NONE, [k |-> "dict", n |-> 0], [k |-> "dict", n |-> 1],
               [k |-> "list", n |-> 1]}
dict_to_payload(d) == [k |-> "list", n |-> d.n]

Statuses ==
    {[given |-> FALSE, v |-> <<>>]}
        \cup {[given |-> TRUE, v |-> v] :
                v \in {SKIPPED, <<"S", "K", "I", "P", "P", "E", "D">>,
                       <<"S", "k", "i", "p", "p", "e", "d">>,
                       <<"s", "k", "i", "p">>, <<"p", "a", "s", "s", "e", "d">>,
                       <<"P", "A", "S", "S", "E", "D">>, <<>>}}

\* ItemFinishRequest.__init__: the request object
ItemFinishRequests ==
    {[fn |-> "item_finish", pc |-> "start",
      in |-> [attributes |-> a, description |-> NONE, end_time |-> 1,
              is_skipped_an_issue |-> f, issue |-> i,
              launch_uuid |-> EXTERNAL_LAUNCH, status |-> st, retry |-> FALSE],
      out |-> NONE] :
        a \in Attributes, f \in BOOLEAN, i \in {NONE, Issue(1)}, st \in Statuses}

\* `if self.attributes and isinstance(self.attributes, dict)`
AttributesAfterPayload(a) ==
    IF a.k = "dict" /\ a.n > 0 THEN dict_to_payload(a) ELSE a

\* the issue_payload local of ItemFinishRequest.payload
IssueDefault_IgnoresFlag(r) ==
    IF r.issue = NONE /\ (r.status.given /\ Lower(r.status.v) = SKIPPED)
    THEN NOT_ISSUE ELSE NONE
IssueDefault(r) ==
    IF r.issue = NONE /\ (r.status.given /\ Lower(r.status.v) = SKIPPED)
                      /\ ~r.is_skipped_an_issue
    THEN NOT_ISSUE ELSE NONE

\* ItemFinishRequest.payload
ItemFinishPayload ==
    /\ req.fn = "item_finish" /\ req.pc = "start"
    /\ LET r == req.in
           attributes == AttributesAfterPayload(r.attributes) IN
       req' = [req EXCEPT
                 !.pc = "returned",
                 !.in.attributes = attributes,
                 !.out = [attributes |-> attributes,
                          description |-> r.description,
                          endTime |-> r.end_time,
                          \* getattr(self.issue, 'payload', issue_payload)
                          issue |-> IF r.issue.k = "issue" THEN IssuePayload(r.issue)
                                    ELSE IssueDefault(r),
                          launchUuid |-> r.launch_uuid,
                          status |-> r.status,
                          retry |-> r.retry]]
    /\ UNCHANGED <<clientvars, svc>>

\* content types: 'application/octet-stream' and one given by the caller
DEFAULT_CONTENT == [k |-> "ctype", n |-> 0]
TEXT_HTML == [k |-> "ctype", n |-> 1]
\* an RPFile: its name and content stand for the log request they belong to
RPFile(n, content_type) ==
    [k |-> "file", n |-> n, name |-> n, content |-> n, content_type |-> content_type]
\* RPRequestLog.__init__
RPRequestLog(n, file) ==
    [file |-> file, launch_uuid |-> EXTERNAL_LAUNCH, level |-> "ERROR",
     message |-> Msg(n), time |-> n, item_uuid |-> NONE]
LogReqs ==
    UNION {{RPRequestLog(n, NONE)}
              \cup {RPRequestLog(n, RPFile(n, c)) : c \in {NONE, EMPTY_STR, TEXT_HTML}}
           : n \in 1..MaxLogReqs}
\* RPLogBatch.__init__: the request object
LogBatches ==
    {[fn |-> "log_batch", pc |-> "start", in |-> l, out |-> <<>>] :
        l \in UNION {[1..len -> LogReqs] : len \in 0..MaxLogReqs}}

\* RPRequestLog.__file
LogFile(log) ==
    IF ~Truthy(log.file) THEN <<>> ELSE <<[name |-> log.file.name]>>

\* RPRequestLog.payload; `file` holds the entry __file adds, if any
LogPayload(log) ==
    [launchUuid |-> log.launch_uuid, level |-> log.level, message |-> log.message,
     time |-> log.time, itemUuid |-> log.item_uuid, file |-> LogFile(log)]

\* json.dumps
Dumps(x) == [json |-> x]

\* `rp_file.content_type or self.default_content`
ContentTypeOrDefault_AsGiven(rp_file) == rp_file.content_type
ContentTypeOrDefault(rp_file) ==
    IF Truthy(rp_file.content_type) THEN rp_file.content_type ELSE DEFAULT_CONTENT

\* RPLogBatch.__get_file
GetFile(rp_file) ==
    <<"file", <<rp_file.name, rp_file.content, ContentTypeOrDefault(rp_file)>>>>

\* RPLogBatch.__get_files
RECURSIVE GetFiles(_)
GetFiles(log_reqs) ==
    IF log_reqs = <<>> THEN <<>>
    ELSE (IF Truthy(Head(log_reqs).file) THEN <<GetFile(Head(log_reqs).file)>>
          ELSE <<>>) \o GetFiles(Tail(log_reqs))

\* RPLogBatch.__get_request_part
GetRequestPart(log_reqs) ==
    << <<"json_request_part",
         <<NONE, Dumps([i \in 1..Len(log_reqs) |-> LogPayload(log_reqs[i])]),
           "application/json">> >> >>
        \o GetFiles(log_reqs)

\* RPLogBatch.payload
LogBatchPayload ==
    /\ req.fn = "log_batch" /\ req.pc = "start"
    /\ req' = [req EXCEPT !.pc = "returned", !.out = GetRequestPart(req.in)]
    /\ UNCHANGED <<clientvars, svc>>

ReqInit ==
    /\ ClientInit
    /\ kind = "async"
    /\ ~use_own_launch
    /\ todo = EndToEnd
    /\ svc = NoService
    /\ \/ req \in AwaitInputs
       \/ req \in ItemFinishRequests
       \/ req \in LogBatches

ReqNext ==
    \/ AwaitIfNecessary
    \/ AwaitIfNecessaryAgain
    \/ ItemFinishPayload
    \/ LogBatchPayload

ReqSpec == ReqInit /\ [][ReqNext]_vars

\* ================================================================== claims
\* the records of the log batches handed to the transport, in issue order
RECURSIVE SentRecords(_)
SentRecords(i) ==
    IF i = 0 THEN <<>>
    ELSE SentRecords(i - 1) \o net[i].b

LogCalls == SelectSeq(net, LAMBDA c : c.op \in {"log", "log_batch"})
FinishLaunchReturned == outcome.op = "finish_launch" /\ outcome.how = "returned"
Issued(t) == \E i \in 1..Len(net) : net[i].t = t

\* C1: in every client variant the transport call that sends the records
\* flushed by finish_launch is issued before the finish-launch transport call.
C1_FlushSentBeforeFinishLaunch ==
    \A j \in 1..Len(net) :
        (net[j].op = "finish_launch" /\ flushed # <<>>)
            => \E i \in 1..(j - 1) : net[i].op = "log_batch" /\ net[i].b = flushed

C1_Witness ==
    /\ kind = "threaded"
    /\ flushed # <<>>
    /\ \E j \in 1..Len(net) : net[j].op = "finish_launch"

\* C2: once finish_launch has returned after a sequence of log() calls, the
\* batches handed to Client.log_batch, concatenated, are the logged records
\* in submission order, and no record is left in the LogBatcher.
C2_AllRecordsSentInOrder ==
    (/\ FinishLaunchReturned
     /\ \A t \in OpTasks("log") : \A f \in OpTasks("log_batch") : t < f)
        => /\ SentRecords(Len(net)) = [i \in 1..Cardinality(OpTasks("log")) |-> i]
           /\ batch = <<>>

\* C3: end-to-end trace with batch max count 2 and three logs: exactly two
\* log batches, of 2 then 1 records, are dispatched before the finish-launch
\* call, and the finish-item call targets the identifier the start-item unit
\* resolved to.
EndToEndDone ==
    /\ LogBatchSize = 2
    /\ [t \in TaskIds |-> tasks[t].op] =
          <<"start_launch", "start_item", "log", "log", "log", "finish_item",
            "log_batch", "finish_launch">>
    /\ \A t \in TaskIds : tasks[t].st = "done"
    /\ FinishLaunchReturned

C3_EndToEndTrace ==
    EndToEndDone =>
        /\ Len(LogCalls) = 2
        /\ Len(LogCalls[1].b) = 2
        /\ Len(LogCalls[2].b) = 1
        /\ \A i, j \in 1..Len(net) :
              (net[i].op \in {"log", "log_batch"} /\ net[j].op = "finish_launch") => i < j
        /\ \A i \in 1..Len(net) :
              net[i].op = "finish_item" => net[i].u = "item" /\ net[i].v = tasks[2].res

\* C4: no batch passed to Client.log_batch has more than log_batch_size
\* records.
C4_BatchWithinLogBatchSize ==
    \A i \in 1..Len(net) : Len(net[i].b) <= LogBatchSize

\* C5: when the identifier handed to start_test_item, finish_test_item or
\* finish_launch resolves to NOT_FOUND, the session method is never invoked,
\* not even with an empty URL.
C5_NoSessionCallOnNotFound ==
    \A i \in 1..Len(net) : net[i].u # "null"

\* C6: when the parent identifier of start_test_item or the item identifier
\* of finish_test_item resolves to NOT_FOUND, the operation's own result
\* resolves to NOT_FOUND.
ResolvedNotFound(h) == ~Pending(h) /\ ~Failed(h) /\ Value(h) = NOT_FOUND

C6_NotFoundPropagates ==
    \A t \in TaskIds :
        (/\ tasks[t].op \in {"start_item", "finish_item"}
         /\ tasks[t].dep.k = "task"
         /\ ResolvedNotFound(tasks[t].dep)
         /\ IsDone(t))
            => tasks[t].st = "done" /\ tasks[t].res = NOT_FOUND

\* C7: the transport call of finish_test_item, and of start_test_item with a
\* parent, is issued only after the start call of the item it names has
\* returned.
C7_DependentCallAfterResolution ==
    \A i \in 1..Len(net) :
        LET d == tasks[net[i].t].dep IN
        (net[i].op \in {"start_item", "finish_item"} /\ d.k \in {"task", "id"})
            => tasks[d.n].op = "start_item" /\ tasks[d.n].st = "done"

C7_Witness ==
    /\ IsSync
    /\ \E i \in 1..Len(net) : \E j \in 1..Len(net) :
          /\ net[i].op = "finish_item"
          /\ net[j].op = "start_item"
          /\ tasks[net[j].t].dep.k = "task"

\* C8: ThreadedRPClient.start_test_item on a parent that is not resolved yet
\* needs only the task mutex to register and return, pushes the new task on
\* the item stack, and the unit's transport call is not issued while the
\* parent is unresolved.
C8_SchedulingDoesNotAwaitParent ==
    kind = "threaded" =>
        /\ (pc = "create" /\ call.op = "start_item" /\ mutex = "free")
              => ENABLED ThreadedRegister
        /\ \A t \in OpTasks("start_item") :
              Pending(tasks[t].dep) => ~Issued(t)
        /\ \A i \in 1..Len(item_stack) :
              item_stack[i].k = "task" /\ tasks[item_stack[i].n].op = "start_item"

C8_Witness ==
    /\ kind = "threaded"
    /\ pc = "idle"
    /\ item_stack # <<>>
    /\ LET top == item_stack[Len(item_stack)] IN
          /\ tasks[top.n].dep.k = "task"
          /\ Pending(tasks[top.n].dep)
          /\ ~IsDone(top.n)

\* C9: ThreadedRPClient never holds the task-list mutex while it waits for a
\* task to complete, so create_task on another thread is not blocked by a
\* finish_tasks that is waiting.
C9_MutexNotHeldWhileWaiting ==
    (kind = "threaded" /\ pc = "ft_wait" /\ ~IsDone(task_list[ft_idx]))
        => mutex = "free"

\* C10: BatchedRPClient with trigger_num = N, after exactly N create_task calls
\* and no finish_tasks: the pending list is empty and all N units are done.
\* The n-th create_task call of the client has returned, and no finish_tasks
\* has been called since.
CreateTaskReturned(n) ==
    /\ kind = "batched"
    /\ Len(tasks) = n
    /\ \A t \in TaskIds : tasks[t].by = "main"
    /\ \/ pc \in {"fl2", "ft"}
       \/ /\ pc = "idle"
          /\ outcome.op # "finish_launch"
          /\ outcome.how = "returned"
          /\ outcome.t = n

C10_AfterTriggerNumCalls ==
    CreateTaskReturned(TriggerNum)
        => task_list = <<>> /\ \A t \in TaskIds : tasks[t].st = "done"

\* C10, amended: when the N-th call is made before trigger_interval has passed
\* since construction, that call takes all N units off the pending list,
\* which stays empty, drives them as one batch, and returns only when all N
\* are done.
C10_CountTriggerFires ==
    (/\ kind = "batched"
     /\ Len(tasks) = TriggerNum
     /\ \A t \in TaskIds : tasks[t].by = "main"
     /\ now < TriggerInterval) =>
        /\ (pc = "drive" /\ call.stage # 3)
              => call.g = TaskIds /\ task_list = <<>>
        /\ (pc \in {"idle", "fl2", "ft"} /\ outcome.op # "finish_launch")
              => task_list = <<>>
        /\ CreateTaskReturned(TriggerNum)
              => \A t \in TaskIds : tasks[t].st = "done"

C10_Witness ==
    /\ CreateTaskReturned(TriggerNum)
    /\ now < TriggerInterval
    /\ pc = "idle"
    /\ task_list = <<>>
    /\ \A t \in TaskIds : tasks[t].st = "done"

\* C11: BatchedRPClient.create_task appends the unit and fires exactly when
\* the pending count has reached trigger_num or trigger_interval has elapsed
\* since the last fire.  When it fires, the whole pending list, the new unit
\* included, is swapped for an empty list and is the batch the call drives,
\* and the call returns only when the whole batch is done.  When it does not
\* fire, the list grows by the new unit and no unit changes.
C11_CreateTaskFiresOnTrigger ==
    [][ /\ (kind = "batched" /\ Len(tasks') = Len(tasks) + 1) =>
              LET t == Len(tasks) + 1
                  batch_taken == Range(task_list) \cup {t}
                  fire == \/ Len(task_list) + 1 >= TriggerNum
                          \/ now - last_run_time >= TriggerInterval
              IN IF fire
                 THEN /\ task_list' = <<>>
                      /\ last_run_time' = now
                      /\ IF tasks'[t].by = "main"
                         THEN \/ pc' = "drive" /\ call'.g = batch_taken
                              \/ pc' = "idle" /\ outcome'.how = "loop_running"
                         ELSE pc2' = "swapped" /\ g2' = batch_taken
                 ELSE /\ task_list' = Append(task_list, t)
                      /\ pc' # "drive" \/ pc = "drive"
                      /\ pc2' = pc2
                      /\ last_run_time' = last_run_time
                      /\ \A u \in TaskIds : tasks'[u] = tasks[u]
        /\ BatchedReturn => \A t \in call.g : tasks[t].st = "done"
        /\ (OtherDriveEnd /\ \A t \in g2 : tasks[t].st # "failed")
              => \A t \in g2 : tasks[t].st = "done"
      ]_vars

\* a create_task call fired on the interval alone and has returned
C11_Witness ==
    /\ kind = "batched"
    /\ pc = "idle"
    /\ outcome.how = "returned"
    /\ outcome.t = 1
    /\ last_run_time > 0
    /\ task_list = <<>>
    /\ tasks[1].st = "done"

\* C12: BatchedRPClient.finish_tasks takes every unit still pending, drives
\* each of them to completion, and leaves the pending list empty when it ends.
C12_FinishTasksDrainsAll ==
    [][ (kind = "batched" /\ pc = "drive" /\ call.stage = 3 /\ pc' # "drive") =>
            /\ task_list' = <<>>
            /\ \A t \in call.g : IsDone(t)
      ]_vars

\* C13: in BatchedRPClient no thread calls run_until_complete while another
\* thread is inside run_until_complete on the same loop: the lock keeps the
\* two apart, so neither call finds the loop running.
C13_OneThreadDrivesTheLoop ==
    kind = "batched" => pc2 # "loop_running" /\ outcome.how # "loop_running"

\* C14: ThreadedRPClient.finish_tasks always terminates: it never waits on one
\* task for longer than the per-task timeout nor in total for longer than the
\* shutdown timeout, and once called it returns, whether or not the tracked
\* tasks ever complete.
C14_FinishTasksTerminates ==
    /\ [](pc = "ft_wait" =>
            /\ now - task_start <= DEFAULT_TASK_TIMEOUT
            /\ now - shutdown_start <= DEFAULT_SHUTDOWN_TIMEOUT)
    /\ [](kind = "threaded" /\ pc \in {"ft", "ft_wait"}
            => <>(pc = "idle" /\ outcome.op \in {"finish_launch", "finish_tasks"}))

\* finish_tasks returned on the shutdown timeout with a tracked task not done
C14_Witness ==
    /\ kind = "threaded"
    /\ pc = "idle"
    /\ outcome.op = "finish_launch"
    /\ outcome.how = "returned"
    /\ now - shutdown_start >= DEFAULT_SHUTDOWN_TIMEOUT
    /\ \E t \in TaskIds : ~IsDone(t)

\* C15: finish_tasks applies the task_timeout and shutdown_timeout given to
\* the constructor: it waits at most task_timeout on a task and at most
\* shutdown_timeout in total.
C15_ConfiguredTimeoutsApply ==
    (kind = "threaded" /\ pc = "ft_wait") =>
        /\ now - task_start <= TaskTimeout
        /\ now - shutdown_start <= ShutdownTimeout

\* C16: whenever ThreadedRPClient.finish_tasks stops waiting for a tracked
\* task that is still not done (per-task or shutdown timeout), it logs a
\* warning.
C16_AbandonedTasksAreReported ==
    [][ (ThreadedWaitEnd /\ ~IsDone(task_list[ft_idx])) => warnings' # warnings ]_vars

\* the units a strategy still answers for: its task list, and the batches a
\* Batched create_task / finish_tasks has taken out of the list to drive
Tracked ==
    Range(task_list)
      \cup (IF kind = "batched" /\ pc = "drive" THEN call.g ELSE {})
      \cup (IF kind = "batched" THEN g2 ELSE {})

\* no unit awaits the result of another unit
Independent == \A t \in TaskIds : tasks[t].dep.k # "task" /\ tasks[t].lh.k # "task"

\* C17: with independent units and create_task calls of two threads that do
\* not overlap finish_tasks, a unit leaves the tracked units only when it is
\* done or failed, or (Threaded) when finish_tasks gives up on a timeout.
C17_UnitsReachTerminalState ==
    [][ (IsSync /\ Independent' /\ ~(FinishLaunchCalled /\ pc2 # "idle")) =>
          \A t \in Tracked \ Tracked' :
             \/ tasks'[t].st \in {"done", "failed"}
             \/ kind = "threaded" /\ pc = "ft_wait" ]_vars

\* C18: finish_test_item with an empty item stack never leaves the caller
\* blocked in _remove_current_item (it is to fail with an error instead).
C18_EmptyPopNeverBlocks ==
    (call.op = "finish_item" /\ item_stack = <<>>) => pc # "blocked"

\* start_test_item / finish_test_item calls made so far (the one in progress
\* included)
ItemsStarted == Cardinality(OpTasks("start_item"))
ItemsFinished == Cardinality(OpTasks("finish_item"))

\* C19: in AsyncRPClient, as long as no more items were finished than were
\* started, the stack depth between calls is the number of items started and
\* not yet finished, and no finish_test_item is left blocked.
C19_StackDepthMatchesOpenItems ==
    (kind = "async" /\ ItemsFinished <= ItemsStarted) =>
        /\ pc # "blocked"
        /\ pc = "idle" => Len(item_stack) = ItemsStarted - ItemsFinished

\* the log() call of the main caller that has just scheduled unit t
LogScheduled(t) ==
    /\ Len(tasks') = Len(tasks) + 1
    /\ t = Len(tasks')
    /\ tasks'[t].op = "log"
    /\ tasks'[t].by = "main"

\* C20: a log() to current_item() is addressed to the handle pushed last among
\* those still on the item stack (handles are numbered in push order), or to
\* no item when the stack is empty, and the stack is left as it was.
C20_CurrentItemIsTopOfStack ==
    [][ \A t \in 1..(Len(tasks) + 1) : LogScheduled(t) =>
          /\ item_stack' = item_stack
          /\ IF item_stack = <<>>
             THEN tasks'[t].dep = NONE
             ELSE /\ tasks'[t].dep \in Range(item_stack)
                  /\ \A h \in Range(item_stack) : h.n <= tasks'[t].dep.n ]_vars

\* a log was addressed to the inner of two open items
C20_Witness ==
    /\ pc = "idle"
    /\ outcome.op = "log"
    /\ outcome.t > 0
    /\ Len(item_stack) >= 2
    /\ tasks[outcome.t].dep = item_stack[Len(item_stack)]
    /\ tasks[outcome.t].dep # item_stack[1]

\* the step in which a clone() call of the main caller ends
CloneCallEnds == outcome'.op = "clone" /\ todo' # todo

\* C21: clone() hands back a new client with an empty LogBatcher of its own,
\* and no later call on the original changes the clone's item stack or its
\* pending log records.
C21_CloneHasOwnStackAndBatcher ==
    [][ /\ CloneCallEnds => (cloned'.made /\ cloned'.batch = <<>>)
        /\ (cloned.made /\ ~CloneCallEnds) =>
              (cloned'.item_stack = cloned.item_stack /\ cloned'.batch = cloned.batch) ]_vars

\* C22: after clone() the clone has the launch identifier of the original and
\* its stack holds the original's current item, or nothing when there is none.
C22_CloneKeepsLaunchAndCurrentItem ==
    (pc = "idle" /\ outcome.op = "clone") =>
        /\ outcome.how = "returned"
        /\ cloned.made
        /\ cloned.launch_uuid = launch_uuid
        /\ cloned.item_stack = IF item_stack = <<>> THEN <<>>
                               ELSE <<item_stack[Len(item_stack)]>>

\* C23: whatever the session method raises, AsyncHttpRequest.make returns no
\* response instead of raising: a unit whose request was issued and whose
\* coroutine tests the response for None never ends with an exception.
C23_MakeNeverRaises ==
    \A t \in TaskIds :
        (Issued(t) /\ tasks[t].op \in {"start_launch", "start_item",
                                       "finish_item", "finish_launch"})
            => tasks[t].st # "failed"

\* C24: when run_until_complete of a BatchedRPClient create_task or
\* finish_tasks ends, nothing is raised to the caller and every unit of the
\* batch has been driven to its end, also when a unit of the batch failed.
C24_UnitFailureIsContained ==
    [][ (kind = "batched" /\ pc = "drive" /\ pc' # "drive") =>
          /\ outcome'.how # "raised"
          /\ \A t \in call.g : IsDone(t) ]_vars

\* C25: a log() call of the main caller with parent_item NOT_FOUND creates no
\* unit of work, leaves the LogBatcher and the transport history as they were
\* and returns at once with no result.
C25_LogToNotFoundShortCircuits ==
    [][ (todo' # todo /\ IF pc' = "idle"
                         THEN outcome'.op = "log" /\ outcome'.arg = NOT_FOUND
                         ELSE call'.op = "log" /\ call'.arg = NOT_FOUND) =>
          /\ tasks' = tasks
          /\ ready' = ready
          /\ task_list' = task_list
          /\ batch' = batch
          /\ net' = net
          /\ pc' = "idle"
          /\ outcome'.how = "returned"
          /\ outcome'.t = 0 ]_vars

\* log() was called with NOT_FOUND after other units had been scheduled
C25_Witness ==
    /\ pc = "idle"
    /\ outcome.op = "log"
    /\ outcome.arg = NOT_FOUND
    /\ tasks # <<>>
    /\ "log_no_item" \in warnings

\* the step in which the main caller calls start_test_item
StartTestItemCalled ==
    /\ todo' # todo
    /\ IF pc' = "idle" THEN outcome'.op = "start_item"
       ELSE call'.op = "start_item"

\* C26: on a client that owns its launch, a start_test_item call made before
\* any start_launch creates no unit of work, issues no transport call and
\* leaves the item stack unchanged.
C26_NoItemBeforeLaunch ==
    [][ (StartTestItemCalled /\ use_own_launch /\ OpTasks("start_launch") = {}) =>
          /\ tasks' = tasks
          /\ ready' = ready
          /\ net' = net
          /\ task_list' = task_list
          /\ item_stack' = item_stack ]_vars

\* start_test_item was called on a client with no launch yet
C26_Witness ==
    /\ use_own_launch
    /\ OpTasks("start_launch") = {}
    /\ pc = "idle"
    /\ outcome.op = "start_item"
    /\ outcome.how = "raised"
    /\ tasks = <<>>
    /\ item_stack = <<>>

\* C27: a ThreadedRPClient create_task (of either thread, registering unit t)
\* leaves the list it found plus t, minus a prefix whose entries are all done.
PrunedPrefixOfDone(t) ==
    LET l2 == Append(task_list, t) IN
    \E k \in 0..(Len(l2) - 1) :
        /\ task_list' = SubSeq(l2, k + 1, Len(l2))
        /\ \A i \in 1..k : IsDone(l2[i])

C27_PruneDropsOnlyDonePrefix ==
    [][ /\ (kind = "threaded" /\ pc = "create" /\ pc' # "create") =>
              PrunedPrefixOfDone(call.t)
        /\ (kind = "threaded" /\ pc2 = "create" /\ pc2' # "create") =>
              PrunedPrefixOfDone(t2) ]_vars

\* pruning has dropped the first unit and kept a later one that is not done
C27_Witness ==
    /\ kind = "threaded"
    /\ pc = "idle"
    /\ pc2 = "idle"
    /\ ~FinishLaunchCalled
    /\ Len(task_list) >= 2
    /\ 1 \in TaskIds \ Range(task_list)
    /\ ~IsDone(task_list[1])

RequestedApiBase == IF svc.api_base_arg.given THEN svc.api_base_arg.v ELSE API_V1

\* C29: the constructor of ReportPortalService succeeds with and without an
\* api_base argument, and base_url joins endpoint, the api_base in force
\* (the argument, or "api/v1") and project.
C29_ApiBaseIsUsed ==
    svc.pc \in {"built", "raised"} =>
        /\ svc.pc = "built"
        /\ svc.base_url = uri_join(<<svc.endpoint, RequestedApiBase, svc.project>>)

\* a string with no slash or backslash at either end
CleanEnds(str) ==
    str # <<>> => (Head(str) \notin {"/", "\\"} /\ str[Len(str)] \notin {"/", "\\"})

\* a string made of slashes and backslashes only
SlashRun(str) == \A i \in 1..Len(str) : str[i] \in {"/", "\\"}

\* clean is raw without the slashes and backslashes at its two ends
StrippedOf(raw, clean) ==
    /\ CleanEnds(clean)
    /\ \E l \in Strs(MaxPartLen), r \in Strs(MaxPartLen) :
          SlashRun(l) /\ SlashRun(r) /\ raw = l \o clean \o r

\* C30: uri_join leaves no slash or backslash at the ends of any part and
\* joins the stripped parts with single slashes.
C30_UriJoinStripsBothSlashes ==
    svc.pc = "joined" =>
        \E e \in Strs(MaxPartLen), p \in Strs(MaxArgLen) :
            /\ StrippedOf(svc.endpoint, e)
            /\ StrippedOf(svc.project, p)
            /\ svc.url = e \o <<"/">> \o p

\* C31: in AsyncRPClient a log batch whose transport call failed inside make
\* (make logged the failure and returned no response) does not make its unit
\* fail, and a finish_launch whose flush met such a failure still returns
\* after scheduling the finish-launch call.
C31_LogBatchFailureIsSwallowed ==
    kind = "async" =>
        \A t \in OpTasks("log") \cup OpTasks("log_batch") :
            tasks[t].ans = "err" =>
                /\ tasks[t].st # "failed"
                /\ (tasks[t].op = "log_batch" /\ use_own_launch /\ pc = "idle"
                      /\ outcome.op = "finish_launch")
                     => (outcome.how = "returned" /\ OpTasks("finish_launch") # {})

\* what Client.log_batch is handed when the loop steps unit t: for a log()
\* unit what the batcher returns for its record, for finish_launch the flush
HandedBatch(t) ==
    IF tasks[t].op = "log" THEN BatcherAppend(batch, tasks[t].b[1]).ret
    ELSE tasks[t].b

\* C32: when a log or log-batch unit reaches Client.log_batch, a transport
\* call is issued only for a non-empty batch and carries that batch; for an
\* empty batch nothing is issued and the unit ends with no result.
C32_NoTransportForEmptyBatch ==
    [][ \A t \in TaskIds :
          (tasks[t].op \in {"log", "log_batch"}
             /\ tasks[t].st \in {"ready", "wait"} /\ tasks'[t].st \in {"io", "done"}) =>
             IF HandedBatch(t) = <<>>
             THEN net' = net /\ tasks'[t].st = "done" /\ tasks'[t].res = NONE
             ELSE /\ Len(net') = Len(net) + 1
                  /\ net'[Len(net')].t = t
                  /\ net'[Len(net')].b = HandedBatch(t)
                  /\ tasks'[t].st = "io" ]_vars

\* a log() call has returned, its record is held by the batcher and no log
\* transport call was made
C32_Witness ==
    /\ pc = "idle"
    /\ outcome.op = "log"
    /\ outcome.how = "returned"
    /\ outcome.t > 0
    /\ tasks[outcome.t].st = "done"
    /\ batch # <<>>
    /\ \A i \in 1..Len(net) : net[i].op \notin {"log", "log_batch"}


\* ---- C33
AwaitReturned == req.fn = "await" /\ req.pc \in {"returned", "again"}
AwaitedKinds == DeferredKinds \cup {"corofn"}

\* C33 as stated: await_if_necessary returns a value that is not awaitable
\* (None and falsy values included) unchanged, returns the awaited result of
\* a future, task or coroutine, and returns its own result unchanged when it
\* is applied to it again.
C33_AwaitNormalizes ==
    AwaitReturned =>
        /\ req.in.k \notin DeferredKinds => req.out = req.in
        /\ req.in.k \in DeferredKinds => req.out = req.in.res
        /\ req.pc = "again" => req.again = req.out

\* C33, amended: await_if_necessary returns a value that is neither a future,
\* a coroutine nor a coroutine function unchanged (None and falsy values
\* included); it returns the awaited result of a future, task or coroutine
\* and the awaited result of calling a coroutine function; applied to its own
\* result it returns that result again whenever the result is not itself a
\* future, a coroutine or a coroutine function.
C33_AwaitNormalizesOneLevel ==
    AwaitReturned =>
        /\ req.in.k \notin AwaitedKinds => req.out = req.in
        /\ req.in.k \in AwaitedKinds => req.out = req.in.res
        /\ (req.pc = "again" /\ req.out.k \notin AwaitedKinds) => req.again = req.out

C33_Witness ==
    /\ req.fn = "await" /\ req.pc = "again"
    /\ req.in = Deferred("coroutine", EMPTY_STR)
    /\ req.out = EMPTY_STR
    /\ req.again = EMPTY_STR


\* ---- C34
FinishPayloadReturned == req.fn = "item_finish" /\ req.pc = "returned"
EqualsIgnoringCase(a, b) ==
    /\ Len(a) = Len(b)
    /\ \A i \in 1..Len(a) :
          a[i] = b[i] \/ <<a[i], b[i]>> \in CaseTable \/ <<b[i], a[i]>> \in CaseTable
SkippedNotAnIssue ==
    /\ req.in.issue = NONE
    /\ req.in.status.given
    /\ EqualsIgnoringCase(req.in.status.v, SKIPPED)
    /\ ~req.in.is_skipped_an_issue

\* C34: the payload of an ItemFinishRequest has 'issue' equal to
\* {'issue_type': 'NOT_ISSUE'} exactly when no issue object was given, the
\* status is 'skipped' in any letter case and is_skipped_an_issue is false;
\* with an issue object it is that object's payload; otherwise it is None.
C34_IssueOfFinishPayload ==
    FinishPayloadReturned =>
        /\ req.out.issue = NOT_ISSUE <=> SkippedNotAnIssue
        /\ req.in.issue # NONE => req.out.issue = IssuePayload(req.in.issue)
        /\ (req.in.issue = NONE /\ ~SkippedNotAnIssue) => req.out.issue = NONE

C34_Witness ==
    /\ FinishPayloadReturned
    /\ req.in.issue = NONE
    /\ req.in.status.v = <<"S", "k", "i", "p", "p", "e", "d">>
    /\ ~req.in.is_skipped_an_issue
    /\ req.out.issue = NOT_ISSUE

\* ---- C35
BatchPayloadReturned == req.fn = "log_batch" /\ req.pc = "returned"
HasFile(log) == log.file # NONE
WithFile(log_reqs) == SelectSeq(log_reqs, HasFile)
ExpectedContentType(f) ==
    IF f.content_type \in {NONE, EMPTY_STR} THEN DEFAULT_CONTENT ELSE f.content_type

\* C35: the payload of an RPLogBatch is one 'json_request_part' holding the
\* payloads of all its log requests in the given order, followed by one
\* 'file' part for each log request that has a file, in the order of those
\* log requests and with no other part; the part of a file without a
\* content type carries 'application/octet-stream'.
C35_PartsOfLogBatch ==
    BatchPayloadReturned =>
        LET files == WithFile(req.in) IN
        /\ Len(req.out) = 1 + Len(files)
        /\ req.out[1][1] = "json_request_part"
        /\ req.out[1][2][2] = Dumps([i \in 1..Len(req.in) |-> LogPayload(req.in[i])])
        /\ \A j \in 1..Len(files) :
              /\ req.out[j + 1][1] = "file"
              /\ req.out[j + 1][2] = <<files[j].file.name, files[j].file.content,
                                       ExpectedContentType(files[j].file)>>

C35_Witness ==
    /\ BatchPayloadReturned
    /\ Len(req.in) = 3
    /\ HasFile(req.in[1]) /\ req.in[1].file.content_type = NONE
    /\ ~HasFile(req.in[2])
    /\ HasFile(req.in[3]) /\ req.in[3].file.content_type = TEXT_HTML
    /\ Len(req.out) = 3
    /\ req.out[2][2][3] = DEFAULT_CONTENT
    /\ req.out[3][2][3] = TEXT_HTML


\* ---- C36
NetOps == {net[i].op : i \in 1..Len(net)}
FinishLaunchEnded == pc = "idle" /\ outcome.op = "finish_launch"

\* C36: on a client constructed with an external launch_uuid, start_launch
\* creates no unit, issues no transport call and leaves the launch_uuid it
\* returns as it was given; finish_launch never issues the finish-launch
\* transport call, and by the time it has ended the records it flushed
\* from the batcher have been handed to the transport.
C36_ExternalLaunch ==
    ~use_own_launch =>
        /\ OpTasks("start_launch") = {}
        /\ "start_launch" \notin NetOps
        /\ launch_uuid = EXTERNAL_LAUNCH
        /\ (pc = "idle" /\ outcome.op = "start_launch") =>
              outcome.how = "returned" /\ outcome.t = 0
        /\ "finish_launch" \notin NetOps
        /\ (FinishLaunchEnded /\ flushed # <<>>) =>
              \E i \in 1..Len(net) : net[i].op = "log_batch" /\ net[i].b = flushed


\* ---- C37
\* units whose create_task call has returned
UnitsHandedBack ==
    {t \in TaskIds : ~(pc \in {"create", "release"} /\ call.t = t)
                      /\ ~(pc2 \in {"create", "release"} /\ t2 = t)}

\* C37: a ThreadedRPClient that made its own loop starts at most one thread,
\* however the create_task calls of two threads interleave, and has started
\* it once a create_task call has returned; a ThreadedRPClient that was given
\* a loop starts none.
C37_AtMostOneThread ==
    kind = "threaded" =>
        /\ threads <= 1
        /\ thread_started <=> threads = 1
        /\ (self_loop /\ UnitsHandedBack # {}) => threads = 1
        /\ ~self_loop => threads = 0

C37_Witness ==
    /\ kind = "threaded" /\ self_loop
    /\ threads = 1
    /\ \E t, u \in UnitsHandedBack : tasks[t].by = "main" /\ tasks[u].by = "other"


\* ---- C38
\* a create_task call of the Threaded client is about to leave the mutex
AtRelease == kind = "threaded" /\ (pc = "release" \/ pc2 = "release")
ReturnedTask == IF pc = "release" THEN call.t ELSE t2

\* C38 as stated: at the moment ThreadedRPClient.create_task releases the
\* mutex the tracked list is not empty, contains the task being returned, and
\* either its first entry is not done or it has exactly one entry.
C38_ListAtRelease ==
    AtRelease =>
        /\ task_list # <<>>
        /\ ReturnedTask \in Range(task_list)
        /\ ~IsDone(task_list[1]) \/ Len(task_list) = 1

\* C38, amended: the list create_task leaves when it releases the mutex is the
\* one its pruning loop produced; it is not empty, contains the task being
\* returned, and either its first entry was not done when the pruning loop
\* tested it or it has exactly one entry.  (The loop thread does not take the
\* mutex: the first entry may have completed by the time of the release.)
C38_ListAfterPruning ==
    [][ /\ (kind = "threaded" /\ pc' = "release" /\ pc # "release") =>
              /\ task_list' # <<>>
              /\ call'.t \in Range(task_list')
              /\ ~IsDone(task_list'[1]) \/ Len(task_list') = 1
        /\ (kind = "threaded" /\ pc2' = "release" /\ pc2 # "release") =>
              /\ task_list' # <<>>
              /\ t2' \in Range(task_list')
              /\ ~IsDone(task_list'[1]) \/ Len(task_list') = 1
        /\ AtRelease =>
              /\ task_list # <<>>
              /\ ReturnedTask \in Range(task_list)
              /\ task_list' = task_list ]_vars

\* the first entry completed between its done() test and the release
C38_Witness ==
    /\ AtRelease
    /\ Len(task_list) >= 2
    /\ IsDone(task_list[1])


\* ---- C39
\* this step ends a finish_test_item call of the main caller
FinishItemEnds ==
    /\ pc' = "idle"
    /\ outcome'.op = "finish_item"
    /\ outcome' # outcome
\* this step is part of a finish_test_item call
InFinishItem == call.op = "finish_item" \/ call'.op = "finish_item" \/ FinishItemEnds
Popped(stack) == SubSeq(stack, 1, Len(stack) - 1)

\* C39: a finish_test_item call removes exactly one entry of the item stack,
\* the top one, whatever item it is given: the stack is left alone until the
\* call ends, and when it ends the top entry is gone.  In the Threaded and
\* Batched clients the entry is removed as the call returns, whether or not
\* the finish unit is done.
C39_FinishPopsTheTop ==
    [][ InFinishItem =>
          IF FinishItemEnds
          THEN item_stack # <<>> /\ item_stack' = Popped(item_stack)
          ELSE item_stack' = item_stack ]_vars


\* ---- C40
\* this step is the return of ThreadedRPClient.finish_tasks
FinishTasksReturns == kind = "threaded" /\ pc \in {"ft", "ft_wait"} /\ pc' = "idle"

\* C40: ThreadedRPClient.finish_tasks leaves the tracked list empty when it
\* returns, also when it gave up on a timeout with tasks not done; it leaves
\* those tasks as they are (they are not cancelled and can still complete);
\* and a finish_tasks call that finds the list empty, as a second call with
\* no create_task in between does, returns at once without waiting.
C40_FinishTasksEmptiesTheList ==
    [][ /\ FinishTasksReturns => (task_list' = <<>> /\ tasks' = tasks)
        /\ (kind = "threaded" /\ pc = "ft" /\ task_list = <<>> /\ pc' # "ft") =>
              (pc' = "idle" /\ outcome'.how = "returned" /\ now' = now)
        /\ (kind = "threaded" /\ pc = "idle" /\ outcome.op = "finish_tasks"
              /\ pc' = "ft" /\ \A t \in TaskIds : tasks[t].by = "main")
              => task_list = <<>> ]_vars

\* a second finish_tasks call is about to look at the list the first one left
\* when it gave up on a timeout: the list is empty, a task is still not done
C40_Witness ==
    /\ kind = "threaded"
    /\ outcome.op = "finish_tasks" /\ outcome.how = "returned"
    /\ pc = "ft" /\ call.op = "finish_tasks"
    /\ task_list = <<>>
    /\ \E t \in TaskIds : ~IsDone(t)

====
